---- MODULE Spec2Model ----
(***************************************************************************)
(* Model of the WOS client onboarding scripts:                             *)
(*   scripts/verify_hubspot_properties.py  (SchemaReconciler)              *)
(*   scripts/generate_client_config.py     (ConfigValidator)               *)
(*   scripts/setup_n8n_tables.py           (TableSpecBuilder)              *)
(* The three scripts share no state; each has its own specification.       *)
(***************************************************************************)
EXTENDS Integers, Sequences, FiniteSets, TLC

VARIABLES
    \* ---- verify_hubspot_properties.py ----
    remote,      \* remote schema: object type -> field name -> number of fields so named
    run,         \* number of invocations of main() started so far
    pc,          \* "idle" | "fetch" | "check" | "done" | "crashed"
    do_create,   \* the --create flag of the current invocation
    ot,          \* index into PROPERTY_SPECS of the object type being processed
    i,           \* index into specs of the property being processed
    existing,    \* result of fetch_existing_properties for the current object type
    all_ok,      \* local all_ok of verify_and_create
    fetched,     \* per object type: "none" | "ok" | "http_error" | "timeout"
    fstate,      \* per object type, per field: outcome within this run
    creates,     \* per object type, per field: create_property calls within this run
    result,      \* return value of verify_and_create: "none" | "True" | "False"
    exit_code,   \* process exit status: -1 (still running) | 0 | 1
    start_remote,\* the remote schema as it was when the current invocation started
    prev,        \* summary of the previous invocation (history)
    \* ---- generate_client_config.py ----
    vpc,         \* "idle" | "input" | "validated"
    vinput,      \* the config dict (or the prefix string) handed to the validator
    verrors,     \* the list of error messages the validator returned
    \* ---- generate_client_config.py, interactive mode ----
    ipc,         \* the prompt being read, or "idle" | "collected" | "written" |
                 \* "validation_failed" | "eof"
    icompany_name, \* company_name of prompt_basic_info
    iprefix,     \* prefix of prompt_basic_info
    ioperators,  \* operators of prompt_operators
    ipersonas,   \* personas of prompt_personas
    ipending,    \* answers read for the operator / persona not yet appended
    ierrors,     \* errors of run_interactive
    ifile,       \* content of {prefix}-client-config.json
    iexit,       \* process exit status: -1 (still running) | 0 | 1
    \* ---- setup_n8n_tables.py ----
    tpc,         \* "idle" | "input" | "built" | "credentials"
    today,       \* date.today(), as a proleptic Gregorian ordinal
    tprefix,     \* the --prefix argument, upper-cased
    toperators,  \* config["operators"]
    tenv,        \* the dict parse_env_file returned
    table        \* the (name, columns, rows) a table generator returned

rvars == <<remote, run, pc, do_create, ot, i, existing, all_ok, fetched, fstate,
           creates, result, exit_code, start_remote, prev>>

vvars == <<vpc, vinput, verrors>>

tvars == <<tpc, today, tprefix, toperators, tenv, table>>

ivars == <<ipc, icompany_name, iprefix, ioperators, ipersonas, ipending, ierrors,
           ifile, iexit>>

vars == <<rvars, vvars, tvars, ivars>>

-----------------------------------------------------------------------------
(* Bounds *)

\* at most this many required fields are absent from the remote schema initially
MaxMissing == 2
\* at most this many invocations of the script in a row
MaxRuns == 2
\* at most this many operators / personas in a config
MaxOps == 2
MaxPersonas == 2
\* longest prefix string tried
MaxPrefixLen == 5
\* longest hubspot_owner_id string tried
MaxIdLen == 3
\* today ranges over FirstDay .. FirstDay + DaySpan (738855 is 2023-12-01)
FirstDay == 738855
DaySpan == 500
\* at most this many operators handed to user_counters_table
MaxTableOps == 2
\* at most this many operators / personas entered at the prompts
MaxPromptOps == 2
MaxPromptPersonas == 1

-----------------------------------------------------------------------------
(* verify_hubspot_properties.py : property definitions *)

Prop(name, type, fieldType, label, groupName) ==
    [name |-> name, type |-> type, fieldType |-> fieldType,
     label |-> label, groupName |-> groupName]

CONTACT_PROPERTIES ==
    << Prop("wos_outreach_stage", "string", "text", "WOS Outreach Stage", "contactinformation"),
       Prop("wos_sequence_status", "string", "text", "WOS Sequence Status", "contactinformation"),
       Prop("wos_sequence_name", "string", "text", "WOS Sequence Name", "contactinformation"),
       Prop("wos_sequence_start_date", "datetime", "date", "WOS Sequence Start Date", "contactinformation"),
       Prop("wos_user_id", "string", "text", "WOS User ID", "contactinformation"),
       Prop("wos_last_interaction_date", "datetime", "date", "WOS Last Interaction Date", "contactinformation"),
       Prop("wos_linkedin_url", "string", "text", "WOS LinkedIn URL", "contactinformation"),
       Prop("wos_linkedin_id", "string", "text", "WOS LinkedIn ID", "contactinformation"),
       Prop("wos_linkedin_connection_status", "string", "text", "WOS LinkedIn Connection Status", "contactinformation"),
       Prop("wos_connection_accepted_date", "datetime", "date", "WOS Connection Accepted Date", "contactinformation"),
       Prop("n8n_initiate_li_message", "string", "text", "n8n Initiate LI Message", "contactinformation") >>

COMPANY_PROPERTIES ==
    << Prop("wos_process_company", "datetime", "date", "WOS Initiate LI Agent", "companyinformation"),
       Prop("wos_persona", "string", "text", "WOS Persona", "companyinformation"),
       Prop("wos_user_id", "string", "text", "WOS User ID", "companyinformation") >>

\* dict in insertion order: contacts first, then companies
PROPERTY_SPECS ==
    << [object_type |-> "contacts", specs |-> CONTACT_PROPERTIES],
       [object_type |-> "companies", specs |-> COMPANY_PROPERTIES] >>

ObjectTypes == {PROPERTY_SPECS[k].object_type : k \in DOMAIN PROPERTY_SPECS}

SpecsOf(t) ==
    PROPERTY_SPECS[CHOOSE k \in DOMAIN PROPERTY_SPECS : PROPERTY_SPECS[k].object_type = t].specs

RequiredNames(t) == {SpecsOf(t)[k].name : k \in DOMAIN SpecsOf(t)}

\* every (object type, field name) pair the script requires
Required == {<<t, n>> \in ObjectTypes \X (UNION {RequiredNames(t) : t \in ObjectTypes}) :
                n \in RequiredNames(t)}

-----------------------------------------------------------------------------
(* The remote schema API *)

\* status codes the remote may answer a POST with
Statuses == {200, 201, 204, 400, 409, 500}

\* POST {base}/{object_type}: the remote adds the field exactly when it answers 200 or 201
RemoteAfterPost(r, t, name, status) ==
    IF status \in {200, 201}
    THEN [r EXCEPT ![t][name] = @ + 1]
    ELSE r

\* fetch_existing_properties with a result list that lost one entry
fetch_existing_properties_truncated(r, t) ==
    {n \in DOMAIN r[t] : r[t][n] >= 1 /\ n # "wos_user_id"}

\* fetch_existing_properties answering with the names that exist on any object type
fetch_existing_properties_any_type(r, t) ==
    {n \in DOMAIN r[t] : \E u \in DOMAIN r : n \in DOMAIN r[u] /\ r[u][n] >= 1}

\* GET {base}/{object_type}: the names of the fields that exist on the object type
fetch_existing_properties(r, t) == {n \in DOMAIN r[t] : r[t][n] >= 1}

\* create_property accepting every 2xx status
create_property_any_2xx(status) == status \in 200..299

\* create_property: True exactly for status 200 or 201
create_property(status) == status \in {200, 201}

\* line 191: `if name in existing` is false
IsMissing(name, fetched_names) == name \notin fetched_names

\* `if do_create` with the flag ignored
ShouldCreate_always(flag) == TRUE

\* line 195: `if do_create`
ShouldCreate(flag) == flag

-----------------------------------------------------------------------------
(* verify_hubspot_properties.py : state machine of main() / verify_and_create *)

Missing(r) == {p \in Required : r[p[1]][p[2]] = 0}

NoRun == [do_create |-> FALSE, ended |-> "none", made_all |-> FALSE, n_created |-> 0]

FreshFetched == [t \in ObjectTypes |-> "none"]
FreshFstate  == [t \in ObjectTypes |-> [n \in RequiredNames(t) |-> "UNCHECKED"]]
FreshCreates == [t \in ObjectTypes |-> [n \in RequiredNames(t) |-> 0]]

\* remote schemas in which every required field exists at most once and at most
\* MaxMissing of them are absent
InitialRemotes ==
    {[t \in ObjectTypes |-> [n \in RequiredNames(t) |-> IF <<t, n>> \in M THEN 0 ELSE 1]] :
        M \in {S \in SUBSET Required : Cardinality(S) <= MaxMissing}}

RInit ==
    /\ remote \in InitialRemotes
    /\ run = 0
    /\ pc = "idle"
    /\ do_create = FALSE
    /\ ot = 1
    /\ i = 1
    /\ existing = {}
    /\ all_ok = TRUE
    /\ fetched = FreshFetched
    /\ fstate = FreshFstate
    /\ creates = FreshCreates
    /\ result = "none"
    /\ exit_code = -1
    /\ start_remote = remote
    /\ prev = NoRun

CurType == PROPERTY_SPECS[ot].object_type
CurSpecs == PROPERTY_SPECS[ot].specs
CurName == CurSpecs[i]["name"]

PyBool(b) == IF b THEN "True" ELSE "False"

\* the `for object_type, specs` loop moves on, or verify_and_create returns all_ok
\* and main() exits with 0 if ok else 1 (lines 176, 205, 230, 241)
EndOfObjectType(ok) ==
    /\ all_ok' = ok
    /\ IF ot < Len(PROPERTY_SPECS)
       THEN /\ pc' = "fetch"
            /\ ot' = ot + 1
            /\ i' = 1
            /\ UNCHANGED <<result, exit_code>>
       ELSE /\ pc' = "done"
            /\ result' = PyBool(ok)
            /\ exit_code' = (IF ok THEN 0 ELSE 1)
            /\ UNCHANGED <<ot, i>>

\* the `for prop in specs` loop moves on (line 189)
EndOfProperty(ok) ==
    IF i < Len(CurSpecs)
    THEN /\ all_ok' = ok
         /\ i' = i + 1
         /\ UNCHANGED <<pc, ot, result, exit_code>>
    ELSE EndOfObjectType(ok)

\* an exception leaves verify_and_create and main(): traceback, exit status 1
Crash ==
    /\ pc' = "crashed"
    /\ exit_code' = 1
    /\ UNCHANGED <<ot, i, all_ok, result>>

\* main() is started with or without --create
Main(flag) ==
    /\ pc \in {"idle", "done", "crashed"}
    /\ run < MaxRuns
    /\ run' = run + 1
    /\ prev' = IF pc = "idle" THEN NoRun
               ELSE [do_create |-> do_create,
                     ended |-> pc,
                     made_all |-> \A p \in Missing(start_remote) : fstate[p[1]][p[2]] = "CREATED",
                     n_created |-> Cardinality({p \in Required : fstate[p[1]][p[2]] = "CREATED"})]
    /\ do_create' = flag
    /\ start_remote' = remote
    /\ pc' = "fetch"
    /\ ot' = 1
    /\ i' = 1
    /\ all_ok' = TRUE
    /\ fetched' = FreshFetched
    /\ fstate' = FreshFstate
    /\ creates' = FreshCreates
    /\ result' = "none"
    /\ exit_code' = -1
    /\ UNCHANGED <<remote, existing>>
    /\ UNCHANGED <<vvars, tvars, ivars>>

\* lines 183, 189: the fetch succeeds and the property loop starts
FetchOk ==
    /\ pc = "fetch"
    /\ existing' = fetch_existing_properties(remote, CurType)
    /\ fetched' = [fetched EXCEPT ![CurType] = "ok"]
    /\ pc' = "check"
    /\ i' = 1
    /\ UNCHANGED <<remote, run, do_create, ot, all_ok, fstate, creates, result,
                   exit_code, start_remote, prev>>
    /\ UNCHANGED <<vvars, tvars, ivars>>

\* lines 152, 184-187: raise_for_status raises HTTPError, which is caught
FetchHTTPError ==
    /\ pc = "fetch"
    /\ fetched' = [fetched EXCEPT ![CurType] = "http_error"]
    /\ EndOfObjectType(FALSE)
    /\ UNCHANGED <<remote, run, do_create, existing, fstate, creates, start_remote, prev>>
    /\ UNCHANGED <<vvars, tvars, ivars>>

\* line 151: requests.get raises Timeout after 30 s; it is no HTTPError
FetchTimeout ==
    /\ pc = "fetch"
    /\ fetched' = [fetched EXCEPT ![CurType] = "timeout"]
    /\ Crash
    /\ UNCHANGED <<remote, run, do_create, existing, fstate, creates, start_remote, prev>>
    /\ UNCHANGED <<vvars, tvars, ivars>>

\* lines 191-192
CheckPresent ==
    /\ pc = "check"
    /\ ~IsMissing(CurName, existing)
    /\ fstate' = [fstate EXCEPT ![CurType][CurName] = "PRESENT"]
    /\ EndOfProperty(all_ok)
    /\ UNCHANGED <<remote, run, do_create, existing, fetched, creates, start_remote, prev>>
    /\ UNCHANGED <<vvars, tvars, ivars>>

\* lines 193-194, 202-203
ReportMissing ==
    /\ pc = "check"
    /\ IsMissing(CurName, existing)
    /\ ~ShouldCreate(do_create)
    /\ fstate' = [fstate EXCEPT ![CurType][CurName] = "REPORTED"]
    /\ EndOfProperty(FALSE)
    /\ UNCHANGED <<remote, run, do_create, existing, fetched, creates, start_remote, prev>>
    /\ UNCHANGED <<vvars, tvars, ivars>>

\* lines 193-201, 156-163: one POST, answered with some status
CreateProperty(status) ==
    /\ pc = "check"
    /\ IsMissing(CurName, existing)
    /\ ShouldCreate(do_create)
    /\ remote' = RemoteAfterPost(remote, CurType, CurName, status)
    /\ creates' = [creates EXCEPT ![CurType][CurName] = @ + 1]
    /\ LET ok == create_property(status) IN
         /\ fstate' = [fstate EXCEPT ![CurType][CurName] = IF ok THEN "CREATED" ELSE "FAILED"]
         /\ EndOfProperty(IF ok THEN all_ok ELSE FALSE)
    /\ UNCHANGED <<run, do_create, existing, fetched, start_remote, prev>>
    /\ UNCHANGED <<vvars, tvars, ivars>>

\* line 159: requests.post raises Timeout after 30 s; nothing catches it
CreateTimeout ==
    /\ pc = "check"
    /\ IsMissing(CurName, existing)
    /\ ShouldCreate(do_create)
    /\ creates' = [creates EXCEPT ![CurType][CurName] = @ + 1]
    /\ fstate' = [fstate EXCEPT ![CurType][CurName] = "RAISED"]
    /\ Crash
    /\ UNCHANGED <<remote, run, do_create, existing, fetched, start_remote, prev>>
    /\ UNCHANGED <<vvars, tvars, ivars>>

-----------------------------------------------------------------------------
(* verify_hubspot_properties.py : properties *)

Terminal == pc \in {"done", "crashed"}

Exists(p) == remote[p[1]][p[2]] >= 1

AllExist == \A p \in Required : Exists(p)

AllFetched == \A t \in ObjectTypes : fetched[t] = "ok"

TimedOut ==
    \/ \E t \in ObjectTypes : fetched[t] = "timeout"
    \/ \E p \in Required : fstate[p[1]][p[2]] = "RAISED"

Attempted == {p \in Required : fstate[p[1]][p[2]] \in {"CREATED", "FAILED", "RAISED"}}

Reported == {p \in Required : fstate[p[1]][p[2]] = "REPORTED"}

NoCreationCalls == \A p \in Required : creates[p[1]][p[2]] = 0

\* C1 as stated: verify_and_create returns True if and only if, after the pass,
\* every required field exists on its object type.
C1_TrueIffAllExist ==
    pc = "done" => (result = "True" <=> AllExist)

\* C1 amended: verify_and_create returns True if and only if the fetch succeeded
\* for every object type and, after the pass, every required field exists on its
\* object type (it was already present, or its creation call returned 200 or
\* 201; any other status leaves it uncreated); True is returned with exit
\* status 0, and a run that returns at all returns True or False.
C1_TrueIffFetchedAndAllExist ==
    /\ \A p \in Required :
          Exists(p) <=> (start_remote[p[1]][p[2]] >= 1 \/ fstate[p[1]][p[2]] = "CREATED")
    /\ result = "True" => pc = "done"
    /\ Terminal => (result = "True" <=> (AllFetched /\ AllExist))
    /\ pc = "done" => /\ result \in {"True", "False"}
                      /\ exit_code = (IF result = "True" THEN 0 ELSE 1)

\* C1 witness: a run with --create returned True after creating one field and
\* finding others present.
C1_Witness ==
    /\ pc = "done"
    /\ do_create
    /\ result = "True"
    /\ \E p \in Required : fstate[p[1]][p[2]] = "CREATED"
    /\ \E p \in Required : fstate[p[1]][p[2]] = "PRESENT"

\* C2: when the fetch fails for one object type, that object type gets no field
\* check and no creation call, the run returns overall failure, and every other
\* object type is still fetched and, if its fetch succeeds, fully processed.
C2_FetchFailureIsolated ==
    Terminal =>
        \A t \in ObjectTypes :
            fetched[t] \in {"http_error", "timeout"} =>
                /\ \A n \in RequiredNames(t) : fstate[t][n] = "UNCHECKED" /\ creates[t][n] = 0
                /\ result = "False"
                /\ \A u \in ObjectTypes \ {t} : fetched[u] # "none"

\* C3: a network call that times out fails that call only: no exception leaves
\* verify_and_create, and the run ends by returning False with exit status 1.
C3_TimeoutContained ==
    TimedOut => /\ pc # "crashed"
                /\ Terminal => (result = "False" /\ exit_code = 1)

\* the previous run had --create and created every field that was missing
FirstRunCreatedAll == run >= 2 /\ prev.do_create /\ prev.made_all

\* C4 as stated: after a first run with create=True that created all missing
\* fields, a second run with create=True reports nothing missing, makes no
\* creation call, returns overall success, and no field exists twice.
C4_SecondRunSucceeds ==
    (FirstRunCreatedAll /\ prev.ended = "done" /\ prev.n_created >= 1 /\ do_create) =>
        /\ Reported = {} /\ Attempted = {}
        /\ NoCreationCalls
        /\ pc = "done" => result = "True"
        /\ \A p \in Required : remote[p[1]][p[2]] <= 1

\* C4 amended: after a first run with create=True that created all missing
\* fields, a second run with create=True reports nothing missing, makes no
\* creation call, leaves every field existing exactly once, and returns overall
\* success whenever its fetches succeed (a failed fetch still yields failure).
C4_Idempotent ==
    (FirstRunCreatedAll /\ do_create) =>
        /\ Reported = {} /\ Attempted = {}
        /\ NoCreationCalls
        /\ \A p \in Required : remote[p[1]][p[2]] = 1
        /\ (Terminal /\ AllFetched) => (pc = "done" /\ result = "True" /\ exit_code = 0)
        /\ pc = "done" => (result = "True" <=> AllFetched)

\* C4 witness: the first run created at least one field and all that were
\* missing; the second run has returned success.
C4_Witness ==
    /\ FirstRunCreatedAll
    /\ prev.n_created >= 2
    /\ do_create
    /\ pc = "done"
    /\ result = "True"

\* C5: a dry run (create=False) makes no creation call and leaves the remote
\* schema unchanged; it reports as missing exactly the required fields absent
\* from the fetched set of their object type; and it ends in overall failure
\* whenever a required field is missing.
C5_DryRun ==
    (run >= 1 /\ ~do_create) =>
        /\ NoCreationCalls
        /\ Attempted = {}
        /\ remote = start_remote
        /\ \A p \in Reported : fetched[p[1]] = "ok" /\ ~Exists(p)
        /\ Terminal =>
              \A t \in ObjectTypes : fetched[t] = "ok" =>
                  \A n \in RequiredNames(t) :
                      fstate[t][n] = (IF Exists(<<t, n>>) THEN "PRESENT" ELSE "REPORTED")
        /\ (Terminal /\ ~AllExist) => (result # "True" /\ exit_code = 1)
        /\ (pc = "done" /\ ~AllExist) => result = "False"

\* C5 witness: a dry run against a remote lacking two fields, one on each
\* object type, has reported both and returned False.
C5_Witness ==
    /\ ~do_create
    /\ pc = "done"
    /\ result = "False"
    /\ Cardinality(Reported) = 2
    /\ \E n \in RequiredNames("contacts") : fstate["contacts"][n] = "REPORTED"
    /\ \E n \in RequiredNames("companies") : fstate["companies"][n] = "REPORTED"

\* C6: with create=True, at the end of a run every missing field of an object
\* type whose fetch succeeded has had exactly one creation attempt, ended in
\* CREATED or FAILED, every present field has had none, and so the number of
\* creation calls equals the number of missing fields of those object types.
C6_OneAttemptPerMissingField ==
    (do_create /\ Terminal) =>
        \A t \in ObjectTypes : fetched[t] = "ok" =>
            \A n \in RequiredNames(t) :
                IF start_remote[t][n] = 0
                THEN creates[t][n] = 1 /\ fstate[t][n] \in {"CREATED", "FAILED"}
                ELSE creates[t][n] = 0 /\ fstate[t][n] = "PRESENT"

\* C12: field existence is decided per object type. A required field that the
\* run has checked counts as present exactly when it existed on its own object
\* type at the start of the run, whatever exists on the other type; a field
\* absent from its own type is reported missing without create and gets one
\* creation call with create. A run that returns has checked every field of
\* every object type whose fetch succeeded. This covers wos_user_id, required
\* on contacts and on companies.
C12_PresenceDecidedPerObjectType ==
    /\ "wos_user_id" \in RequiredNames("contacts") \cap RequiredNames("companies")
    /\ \A t \in ObjectTypes : \A n \in RequiredNames(t) :
          /\ (pc = "done" /\ fetched[t] = "ok") => fstate[t][n] # "UNCHECKED"
          /\ fstate[t][n] # "UNCHECKED" =>
                IF start_remote[t][n] >= 1
                THEN fstate[t][n] = "PRESENT" /\ creates[t][n] = 0
                ELSE IF do_create
                     THEN fstate[t][n] \in {"CREATED", "FAILED", "RAISED"}
                          /\ creates[t][n] = 1
                     ELSE fstate[t][n] = "REPORTED" /\ creates[t][n] = 0

\* C12 witness: wos_user_id existed on contacts only; a run with create found it
\* present on contacts and created it on companies.
C12_Witness ==
    /\ pc = "done"
    /\ do_create
    /\ start_remote["contacts"]["wos_user_id"] >= 1
    /\ start_remote["companies"]["wos_user_id"] = 0
    /\ fstate["contacts"]["wos_user_id"] = "PRESENT"
    /\ fstate["companies"]["wos_user_id"] = "CREATED"
    /\ remote["companies"]["wos_user_id"] >= 1

-----------------------------------------------------------------------------
(* generate_client_config.py : validation helpers *)

\* A Python str is a sequence of characters, a list a sequence of items; None,
\* "" and [] are all falsy and the validators only test truthiness of them.
None == <<>>

Truthy(v) == Len(v) > 0

\* dict.get(key, default)
Get(d, key, default) == IF key \in DOMAIN d THEN d[key] ELSE default

Range(f) == {f[k] : k \in DOMAIN f}

SeqsUpTo(S, n) == UNION {[1..k -> S] : k \in 0..n}

UpperAZ == {"A", "B", "C", "D", "E", "F", "G", "H", "I", "J", "K", "L", "M",
            "N", "O", "P", "Q", "R", "S", "T", "U", "V", "W", "X", "Y", "Z"}

AsciiDigits == {"0", "1", "2", "3", "4", "5", "6", "7", "8", "9"}

\* characters for which str.isdigit() is true: the ASCII digits and every other
\* character of Unicode Numeric_Type Decimal or Digit, here ARABIC-INDIC DIGIT
\* THREE (U+0663) and SUPERSCRIPT TWO (U+00B2)
IsDigitChars == AsciiDigits \cup {"U+0663", "U+00B2"}

\* str.isdigit(): non-empty and every character a digit character
isdigit(str) == Len(str) > 0 /\ \A k \in 1..Len(str) : str[k] \in IsDigitChars

\* a regular expression cls{lo,hi} matched against all of str, k characters in
RECURSIVE RepFullmatch(_, _, _, _, _)
RepFullmatch(cls, lo, hi, str, k) ==
    IF k = Len(str)
    THEN k >= lo
    ELSE k < hi /\ str[k + 1] \in cls /\ RepFullmatch(cls, lo, hi, str, k + 1)

\* re.match(r"^[A-Z]{2,4}$", prefix): `$` also matches before a final newline
re_match_dollar_prefix(prefix) ==
    \/ RepFullmatch(UpperAZ, 2, 4, prefix, 0)
    \/ /\ Len(prefix) > 0
       /\ prefix[Len(prefix)] = "\n"
       /\ RepFullmatch(UpperAZ, 2, 4, SubSeq(prefix, 1, Len(prefix) - 1), 0)

\* re.fullmatch(r"[A-Z]{2,4}", prefix)
re_fullmatch_prefix(prefix) == RepFullmatch(UpperAZ, 2, 4, prefix, 0)

\* an error message: its text, the 1-based position it names (0: none) and the
\* value it quotes (<<>>: none)
Msg(text, idx, val) == [text |-> text, idx |-> idx, val |-> val]

validate_prefix(prefix) ==
    IF ~re_fullmatch_prefix(prefix)
    THEN <<Msg("Prefix must be 2-4 uppercase letters, got", 0, prefix)>>
    ELSE <<>>

\* lines 49-51
MissingFieldErrors(config) ==
    (IF ~Truthy(Get(config, "company_name", None))
     THEN <<Msg("Missing required field: company_name", 0, <<>>)>> ELSE <<>>)
    \o
    (IF ~Truthy(Get(config, "prefix", None))
     THEN <<Msg("Missing required field: prefix", 0, <<>>)>> ELSE <<>>)

\* lines 53-54
PrefixErrors(config) ==
    IF Truthy(Get(config, "prefix", None)) THEN validate_prefix(config["prefix"]) ELSE <<>>

\* lines 60-66, for the operator at enumerate() index k (0-based)
OperatorErrors(k, op) ==
    LET owner_id == Get(op, "hubspot_owner_id", <<>>) IN
    (IF ~Truthy(Get(op, "name", None))
     THEN <<Msg("Operator: missing name", k + 1, <<>>)>> ELSE <<>>)
    \o
    (IF ~Truthy(owner_id)
     THEN <<Msg("Operator: missing hubspot_owner_id", k + 1, <<>>)>>
     ELSE IF ~isdigit(owner_id)
          THEN <<Msg("Operator: hubspot_owner_id must be numeric, got", k + 1, owner_id)>>
          ELSE <<>>)

\* lines 59-66
RECURSIVE EachOperator(_, _)
EachOperator(operators, k) ==
    IF k >= Len(operators) THEN <<>>
    ELSE OperatorErrors(k, operators[k + 1]) \o EachOperator(operators, k + 1)

\* lines 72-75, for the persona at enumerate() index k (0-based)
PersonaErrors(k, p) ==
    (IF ~Truthy(Get(p, "title_keywords", None))
     THEN <<Msg("Persona: missing title_keywords", k + 1, <<>>)>> ELSE <<>>)
    \o
    (IF ~Truthy(Get(p, "location", None))
     THEN <<Msg("Persona: missing location", k + 1, <<>>)>> ELSE <<>>)

\* lines 71-75
RECURSIVE EachPersona(_, _)
EachPersona(personas, k) ==
    IF k >= Len(personas) THEN <<>>
    ELSE PersonaErrors(k, personas[k + 1]) \o EachPersona(personas, k + 1)

validate_config(config) ==
    LET operators == Get(config, "operators", <<>>)
        personas  == Get(config, "personas", <<>>)
    IN  MissingFieldErrors(config)
        \o PrefixErrors(config)
        \o (IF ~Truthy(operators) THEN <<Msg("At least one operator is required", 0, <<>>)>> ELSE <<>>)
        \o EachOperator(operators, 0)
        \o (IF ~Truthy(personas) THEN <<Msg("At least one persona is required", 0, <<>>)>> ELSE <<>>)
        \o EachPersona(personas, 0)

-----------------------------------------------------------------------------
(* generate_client_config.py : inputs *)

\* company names: "" and "Acme"
CompanyNames == {<<>>, <<"A", "c", "m", "e">>}

\* prefixes in configs: "", "AC", "ac"
ConfigPrefixes == {<<>>, <<"A", "C">>, <<"a", "c">>}

\* owner ids in configs: "", "12", "1a", "1" followed by SUPERSCRIPT TWO
ConfigOwnerIds == {<<>>, <<"1", "2">>, <<"1", "a">>, <<"1", "U+00B2">>}

PersonNames == {<<>>, <<"A", "l">>}

OperatorsWith(ids) ==
    {[name |-> n, hubspot_owner_id |-> o] : n \in PersonNames, o \in ids}
    \cup {[name |-> n] : n \in PersonNames}

PersonaChoices ==
    LET titles == {<<>>, <<"C", "E", "O">>}
        places == {<<>>, <<"U", "S">>}
    IN  {[title_keywords |-> t, language |-> <<"e", "n">>, network_distance |-> <<"S">>,
          location |-> l] : t \in titles, l \in places}
        \cup {[title_keywords |-> t] : t \in titles}

\* a dict with the keys K of the full config
Restrict(full, K) == [k \in K |-> full[k]]

ConfigKeys == {"company_name", "prefix", "operators", "personas"}

Configs ==
    {Restrict([company_name |-> c, prefix |-> x, operators |-> o, personas |-> q], K) :
        c \in CompanyNames, x \in ConfigPrefixes,
        o \in SeqsUpTo(OperatorsWith(ConfigOwnerIds), MaxOps),
        q \in SeqsUpTo(PersonaChoices, MaxPersonas),
        K \in SUBSET ConfigKeys}

\* characters prefixes are drawn from; "U+00C9" is LATIN CAPITAL LETTER E WITH ACUTE
PrefixChars == {"A", "Q", "Z", "a", "1", " ", "\n", "U+00C9"}

PrefixStrings == SeqsUpTo(PrefixChars, MaxPrefixLen)

\* characters owner ids are drawn from
OwnerIdChars == {"0", "9", "a", " ", "-", "U+00B2"}

OwnerIdStrings == SeqsUpTo(OwnerIdChars, MaxIdLen)

\* otherwise valid configs whose operators carry any owner id, or none
OwnerConfigs ==
    {[company_name |-> <<"A", "c", "m", "e">>, prefix |-> <<"A", "C">>,
      operators |-> o,
      personas |-> <<[title_keywords |-> <<"C", "E", "O">>, location |-> <<"U", "S">>]>>] :
        o \in {<<a>> : a \in OperatorsWith(OwnerIdStrings)}
              \cup {<<a, b>> : a \in OperatorsWith(ConfigOwnerIds),
                               b \in OperatorsWith(OwnerIdStrings)}}

-----------------------------------------------------------------------------
(* generate_client_config.py : state machine *)

VIdle == vpc = "idle" /\ vinput = <<>> /\ verrors = <<>>

VInitWith(inputs) == vpc = "input" /\ vinput \in inputs /\ verrors = <<>>

\* run_validate / run_interactive call validate_config(config)
ValidateConfig ==
    /\ vpc = "input"
    /\ verrors' = validate_config(vinput)
    /\ vpc' = "validated"
    /\ UNCHANGED vinput
    /\ UNCHANGED <<rvars, tvars, ivars>>

\* prompt_basic_info calls validate_prefix(prefix)
ValidatePrefix ==
    /\ vpc = "input"
    /\ verrors' = validate_prefix(vinput)
    /\ vpc' = "validated"
    /\ UNCHANGED vinput
    /\ UNCHANGED <<rvars, tvars, ivars>>

-----------------------------------------------------------------------------
(* generate_client_config.py : interactive prompts *)

\* characters str.strip() removes
Whitespace == {" ", "\t", "\n"}

RECURSIVE lstrip(_)
lstrip(str) ==
    IF Len(str) > 0 /\ Head(str) \in Whitespace THEN lstrip(Tail(str)) ELSE str

RECURSIVE rstrip(_)
rstrip(str) ==
    IF Len(str) > 0 /\ str[Len(str)] \in Whitespace
    THEN rstrip(SubSeq(str, 1, Len(str) - 1))
    ELSE str

strip(str) == rstrip(lstrip(str))

AsciiLower == <<"a", "b", "c", "d", "e", "f", "g", "h", "i", "j", "k", "l", "m",
                "n", "o", "p", "q", "r", "s", "t", "u", "v", "w", "x", "y", "z">>

AsciiUpper == <<"A", "B", "C", "D", "E", "F", "G", "H", "I", "J", "K", "L", "M",
                "N", "O", "P", "Q", "R", "S", "T", "U", "V", "W", "X", "Y", "Z">>

\* str.upper() of one character: LATIN SMALL LETTER SHARP S becomes "SS"
UpperOfChar(c) ==
    IF \E k \in DOMAIN AsciiLower : AsciiLower[k] = c
    THEN <<AsciiUpper[CHOOSE k \in DOMAIN AsciiLower : AsciiLower[k] = c]>>
    ELSE IF c = "U+00DF" THEN <<"S", "S">>
    ELSE <<c>>

RECURSIVE upper(_)
upper(str) == IF Len(str) = 0 THEN <<>> ELSE UpperOfChar(Head(str)) \o upper(Tail(str))

\* the owner-id loop accepting every non-empty answer
OwnerIdAccepted_nonempty(owner_id) == Len(owner_id) > 0

\* line 133: the loop `while not owner_id.isdigit()` ends
OwnerIdAccepted(owner_id) == isdigit(owner_id)

\* lines typed at a prompt: "", "  ", " ac ", "12", "1" SUPERSCRIPT TWO
Answers == {<<>>, <<" ", " ">>, <<" ", "a", "c", " ">>, <<"1", "2">>, <<"1", "U+00B2">>}

\* lines typed at the prefix prompt: also SHARP S, "acmex" and "Ab "
PrefixAnswers ==
    Answers \cup {<<"U+00DF">>, <<"a", "c", "m", "e", "x">>, <<"A", "b", " ">>}

\* lines typed at a prompt whose answer is free text
FreeAnswers == {<<>>, <<" ", " ">>, <<" ", "a", "c", " ">>}

NoFile == <<>>

IIdle ==
    /\ ipc = "idle" /\ icompany_name = <<>> /\ iprefix = <<>> /\ ioperators = <<>>
    /\ ipersonas = <<>> /\ ipending = <<>> /\ ierrors = <<>> /\ ifile = NoFile
    /\ iexit = -1

\* run_interactive is entered
IInit ==
    /\ ipc = "company_name" /\ icompany_name = <<>> /\ iprefix = <<>>
    /\ ioperators = <<>> /\ ipersonas = <<>> /\ ipending = <<>> /\ ierrors = <<>>
    /\ ifile = NoFile /\ iexit = -1

Prompts == {"company_name", "prefix", "operator_name", "owner_id", "title_keywords",
            "language", "network_distance", "location"}

\* lines 109-111
PromptCompanyName(answer) ==
    /\ ipc = "company_name"
    /\ icompany_name' = strip(answer)
    /\ ipc' = (IF ~Truthy(strip(answer)) THEN "company_name" ELSE "prefix")
    /\ UNCHANGED <<iprefix, ioperators, ipersonas, ipending, ierrors, ifile, iexit>>
    /\ UNCHANGED <<rvars, vvars, tvars>>

\* lines 113-117
PromptPrefix(answer) ==
    /\ ipc = "prefix"
    /\ iprefix' = upper(strip(answer))
    /\ ipc' = (IF Truthy(validate_prefix(upper(strip(answer))))
               THEN "prefix" ELSE "operator_name")
    /\ UNCHANGED <<icompany_name, ioperators, ipersonas, ipending, ierrors, ifile, iexit>>
    /\ UNCHANGED <<rvars, vvars, tvars>>

\* lines 126-131
PromptOperatorName(answer) ==
    /\ ipc = "operator_name"
    /\ Truthy(strip(answer)) => Len(ioperators) < MaxPromptOps
    /\ IF ~Truthy(strip(answer))
       THEN /\ ipc' = (IF ~Truthy(ioperators) THEN "operator_name" ELSE "title_keywords")
            /\ UNCHANGED ipending
       ELSE /\ ipending' = [name |-> strip(answer)]
            /\ ipc' = "owner_id"
    /\ UNCHANGED <<icompany_name, iprefix, ioperators, ipersonas, ierrors, ifile, iexit>>
    /\ UNCHANGED <<rvars, vvars, tvars>>

\* lines 132-136
PromptOwnerId(answer) ==
    /\ ipc = "owner_id"
    /\ IF ~OwnerIdAccepted(strip(answer))
       THEN UNCHANGED <<ipc, ioperators, ipending>>
       ELSE /\ ioperators' = Append(ioperators, [name |-> ipending.name,
                                                 hubspot_owner_id |-> strip(answer)])
            /\ ipending' = <<>>
            /\ ipc' = "operator_name"
    /\ UNCHANGED <<icompany_name, iprefix, ipersonas, ierrors, ifile, iexit>>
    /\ UNCHANGED <<rvars, vvars, tvars>>

\* lines 146-151, 165
PromptTitleKeywords(answer) ==
    /\ ipc = "title_keywords"
    /\ Truthy(strip(answer)) => Len(ipersonas) < MaxPromptPersonas
    /\ IF ~Truthy(strip(answer))
       THEN /\ ipc' = (IF ~Truthy(ipersonas) THEN "title_keywords" ELSE "collected")
            /\ UNCHANGED ipending
       ELSE /\ ipending' = [title_keywords |-> strip(answer)]
            /\ ipc' = "language"
    /\ UNCHANGED <<icompany_name, iprefix, ioperators, ipersonas, ierrors, ifile, iexit>>
    /\ UNCHANGED <<rvars, vvars, tvars>>

\* line 152
PromptLanguage(answer) ==
    /\ ipc = "language"
    /\ ipending' = [title_keywords |-> ipending.title_keywords,
                    language |-> IF Truthy(strip(answer)) THEN strip(answer)
                                 ELSE <<"e", "n">>]
    /\ ipc' = "network_distance"
    /\ UNCHANGED <<icompany_name, iprefix, ioperators, ipersonas, ierrors, ifile, iexit>>
    /\ UNCHANGED <<rvars, vvars, tvars>>

\* line 153
PromptNetworkDistance(answer) ==
    /\ ipc = "network_distance"
    /\ ipending' = [title_keywords |-> ipending.title_keywords,
                    language |-> ipending.language,
                    network_distance |-> IF Truthy(strip(answer)) THEN strip(answer)
                                         ELSE <<"S">>]
    /\ ipc' = "location"
    /\ UNCHANGED <<icompany_name, iprefix, ioperators, ipersonas, ierrors, ifile, iexit>>
    /\ UNCHANGED <<rvars, vvars, tvars>>

\* lines 154-163
PromptLocation(answer) ==
    /\ ipc = "location"
    /\ IF ~Truthy(strip(answer))
       THEN UNCHANGED <<ipc, ipersonas, ipending>>
       ELSE /\ ipersonas' = Append(ipersonas,
                                  [title_keywords |-> ipending.title_keywords,
                                   language |-> ipending.language,
                                   network_distance |-> ipending.network_distance,
                                   location |-> strip(answer)])
            /\ ipending' = <<>>
            /\ ipc' = "title_keywords"
    /\ UNCHANGED <<icompany_name, iprefix, ioperators, ierrors, ifile, iexit>>
    /\ UNCHANGED <<rvars, vvars, tvars>>

\* input() at the end of stdin raises EOFError, which nothing catches
EndOfInput ==
    /\ ipc \in Prompts
    /\ ipc' = "eof"
    /\ iexit' = 1
    /\ UNCHANGED <<icompany_name, iprefix, ioperators, ipersonas, ipending, ierrors, ifile>>
    /\ UNCHANGED <<rvars, vvars, tvars>>

\* lines 198-203
AssembledConfig ==
    [company_name |-> icompany_name, prefix |-> iprefix,
     operators |-> ioperators, personas |-> ipersonas]

\* lines 198-215, 290: the config is assembled and validated; with errors the
\* script exits with 1, without it writes the config file and ends
ValidateAndWrite ==
    /\ ipc = "collected"
    /\ ierrors' = validate_config(AssembledConfig)
    /\ IF Truthy(validate_config(AssembledConfig))
       THEN /\ ipc' = "validation_failed"
            /\ iexit' = 1
            /\ UNCHANGED ifile
       ELSE /\ ifile' = AssembledConfig
            /\ ipc' = "written"
            /\ iexit' = 0
    /\ UNCHANGED <<icompany_name, iprefix, ioperators, ipersonas, ipending>>
    /\ UNCHANGED <<rvars, vvars, tvars>>

-----------------------------------------------------------------------------
(* setup_n8n_tables.py : dates *)

WEEKLY_REMAINING == 150
DAILY_REMAINING == 20

\* datetime._DAYS_IN_MONTH and datetime._DAYS_BEFORE_MONTH, months 1..12
DAYS_IN_MONTH == <<31, 28, 31, 30, 31, 30, 31, 31, 30, 31, 30, 31>>
DAYS_BEFORE_MONTH == <<0, 31, 59, 90, 120, 151, 181, 212, 243, 273, 304, 334>>

\* date.fromordinal: the (year, month, day) of a proleptic Gregorian ordinal
Ord2Ymd(ord) ==
    LET n0   == ord - 1
        n400 == n0 \div 146097
        r400 == n0 % 146097
        n100 == r400 \div 36524
        r100 == r400 % 36524
        n4   == r100 \div 1461
        r4   == r100 % 1461
        n1   == r4 \div 365
        n    == r4 % 365
        year == n400 * 400 + 1 + n100 * 100 + n4 * 4 + n1
    IN  IF n1 = 4 \/ n100 = 4
        THEN <<year - 1, 12, 31>>
        ELSE LET leapyear == n1 = 3 /\ (n4 # 24 \/ n100 = 3)
                 month0 == (n + 50) \div 32
                 prec0  == DAYS_BEFORE_MONTH[month0] + (IF month0 > 2 /\ leapyear THEN 1 ELSE 0)
                 month  == IF prec0 > n THEN month0 - 1 ELSE month0
                 prec   == IF prec0 > n
                           THEN prec0 - (DAYS_IN_MONTH[month]
                                         + (IF month = 2 /\ leapyear THEN 1 ELSE 0))
                           ELSE prec0
             IN  <<year, month, n - prec + 1>>

DigitChar(d) == <<"0", "1", "2", "3", "4", "5", "6", "7", "8", "9">>[d + 1]

RECURSIVE Pow10(_)
Pow10(k) == IF k = 0 THEN 1 ELSE 10 * Pow10(k - 1)

\* "%0{w}d" % n
Pad(n, w) == [k \in 1..w |-> DigitChar((n \div Pow10(w - k)) % 10)]

\* str(n) for n >= 0
RECURSIVE PyStr(_)
PyStr(n) == IF n < 10 THEN <<DigitChar(n)>> ELSE PyStr(n \div 10) \o <<DigitChar(n % 10)>>

\* date.isoformat(): "YYYY-MM-DD"
isoformat(ord) ==
    LET ymd == Ord2Ymd(ord)
    IN  Pad(ymd[1], 4) \o <<"-">> \o Pad(ymd[2], 2) \o <<"-">> \o Pad(ymd[3], 2)

\* date.weekday(): Monday is 0
weekday(ord) == (ord + 6) % 7

\* next_monday with the days-ahead taken modulo 7
next_monday_mod7(day) == isoformat(day + ((7 - weekday(day)) % 7))

next_monday(day) ==
    LET days_ahead0 == 7 - weekday(day)
        days_ahead  == IF days_ahead0 = 7 THEN 7 ELSE days_ahead0
    IN  isoformat(day + days_ahead)

tomorrow(day) == isoformat(day + 1)

-----------------------------------------------------------------------------
(* setup_n8n_tables.py : table generators *)

\* f"{prefix}-wos-user_counters": the prefix and the literal that follows it
TableName(prefix, suffix) == <<prefix, suffix>>

\* next_monday() and tomorrow() each read date.today(); day is that date
user_counters_table(prefix, operators, day) ==
    LET nm == next_monday(day)
        tm == tomorrow(day)
    IN  [name |-> TableName(prefix, "-wos-user_counters"),
         columns |-> <<"user_name", "hubspot_owner_id", "weekly_count", "daily_count",
                       "weekly_remaining", "daily_remaining", "weekly_reset_date",
                       "daily_reset_date", "invite_safe_date", "extra_1", "extra_2",
                       "extra_3">>,
         rows |-> [k \in 1..Len(operators) |->
                     [user_name |-> operators[k]["name"],
                      hubspot_owner_id |-> operators[k]["hubspot_owner_id"],
                      weekly_count |-> <<"0">>,
                      daily_count |-> <<"0">>,
                      weekly_remaining |-> PyStr(WEEKLY_REMAINING),
                      daily_remaining |-> PyStr(DAILY_REMAINING),
                      weekly_reset_date |-> nm,
                      daily_reset_date |-> tm,
                      invite_safe_date |-> <<>>,
                      extra_1 |-> <<>>,
                      extra_2 |-> <<>>,
                      extra_3 |-> <<>>]]]

\* operators of a config that passed validation
TableOperators ==
    {[name |-> <<"A", "l">>, hubspot_owner_id |-> <<"1", "2">>],
     [name |-> <<"B", "o">>, hubspot_owner_id |-> <<"7">>]}

NoTable == [name |-> <<>>, columns |-> <<>>, rows |-> <<>>]

TIdle ==
    /\ tpc = "idle" /\ today = FirstDay /\ tprefix = <<>> /\ toperators = <<>>
    /\ tenv = <<>>
    /\ table = NoTable

TInit ==
    /\ tpc = "input"
    /\ today \in FirstDay .. FirstDay + DaySpan
    /\ tprefix \in {<<"A", "C">>, <<"A", "C", "M", "E">>}
    /\ toperators \in SeqsUpTo(TableOperators, MaxTableOps)
    /\ tenv = <<>>
    /\ table = NoTable

\* main() calls user_counters_table(prefix, config.get("operators", []))
UserCountersTable ==
    /\ tpc = "input"
    /\ table' = user_counters_table(tprefix, toperators, today)
    /\ tpc' = "built"
    /\ UNCHANGED <<today, tprefix, toperators, tenv>>
    /\ UNCHANGED <<rvars, vvars, ivars>>

\* credentials_table with a row only for the services that have an api key
credentials_table_populated_only(prefix, env) ==
    LET row(service, key) ==
            IF Len(Get(env, key, <<>>)) > 0
            THEN <<[service |-> service, api_key |-> env[key], account_id |-> <<>>,
                    dns |-> <<>>, extra_1 |-> <<>>, extra_2 |-> <<>>]>>
            ELSE <<>>
    IN  [name |-> TableName(prefix, "-wos-credentials"),
         columns |-> <<"service", "api_key", "account_id", "dns", "extra_1", "extra_2">>,
         rows |-> row("hubspot", "HUBSPOT_TOKEN") \o row("unipile", "UNIPILE_API_KEY")
                  \o row("cargo", "CARGO_API_KEY")]

credentials_table(prefix, env) ==
    [name |-> TableName(prefix, "-wos-credentials"),
     columns |-> <<"service", "api_key", "account_id", "dns", "extra_1", "extra_2">>,
     rows |-> <<[service |-> "hubspot",
                 api_key |-> Get(env, "HUBSPOT_TOKEN", <<>>),
                 account_id |-> <<>>,
                 dns |-> <<>>,
                 extra_1 |-> <<>>,
                 extra_2 |-> <<>>],
                [service |-> "unipile",
                 api_key |-> Get(env, "UNIPILE_API_KEY", <<>>),
                 account_id |-> Get(env, "UNIPILE_ACCOUNT_ID", <<>>),
                 dns |-> Get(env, "UNIPILE_DNS", <<>>),
                 extra_1 |-> <<>>,
                 extra_2 |-> <<>>],
                [service |-> "cargo",
                 api_key |-> Get(env, "CARGO_API_KEY", <<>>),
                 account_id |-> <<>>,
                 dns |-> <<>>,
                 extra_1 |-> <<>>,
                 extra_2 |-> <<>>]>>]

\* keys a credential file may hold: the five the table reads and one it does not
EnvKeys == {"HUBSPOT_TOKEN", "UNIPILE_API_KEY", "UNIPILE_ACCOUNT_ID", "UNIPILE_DNS",
            "CARGO_API_KEY", "N8N_URL"}

\* values of a credential: "", "a", "b"
EnvValues == {<<>>, <<"a">>, <<"b">>}

\* credential sets: every subset of the keys, each key with any value
Envs == UNION {[K -> EnvValues] : K \in SUBSET EnvKeys}

TInitCredentials ==
    /\ tpc = "input"
    /\ today = FirstDay
    /\ tprefix \in {<<"A", "C">>, <<"A", "C", "M", "E">>}
    /\ toperators = <<>>
    /\ tenv \in Envs
    /\ table = NoTable

\* main() calls credentials_table(prefix, env)
CredentialsTable ==
    /\ tpc = "input"
    /\ table' = credentials_table(tprefix, tenv)
    /\ tpc' = "credentials"
    /\ UNCHANGED <<today, tprefix, toperators, tenv>>
    /\ UNCHANGED <<rvars, vvars, ivars>>

-----------------------------------------------------------------------------
(* generate_client_config.py : properties *)

\* exactly 2, 3 or 4 characters, each an uppercase ASCII letter
TwoToFourUpper(str) == Len(str) \in {2, 3, 4} /\ \A k \in 1..Len(str) : str[k] \in UpperAZ

\* non-empty and made of the decimal digits 0-9 only
DecimalDigits(str) == Len(str) > 0 /\ \A k \in 1..Len(str) : str[k] \in AsciiDigits

HasMessage(text, idx) == \E m \in Range(verrors) : m.text = text /\ m.idx = idx

Absent(d, key) == key \notin DOMAIN d \/ Len(d[key]) = 0

When(cond, v) == IF cond THEN {v} ELSE {}

\* the (message, position) pairs the rules of the validator call for
Violations(config) ==
    LET operators == IF Absent(config, "operators") THEN <<>> ELSE config["operators"]
        personas  == IF Absent(config, "personas") THEN <<>> ELSE config["personas"]
    IN  When(Absent(config, "company_name"), <<"Missing required field: company_name", 0>>)
        \cup When(Absent(config, "prefix"), <<"Missing required field: prefix", 0>>)
        \cup When(~Absent(config, "prefix") /\ ~TwoToFourUpper(config["prefix"]),
                  <<"Prefix must be 2-4 uppercase letters, got", 0>>)
        \cup When(Len(operators) = 0, <<"At least one operator is required", 0>>)
        \cup UNION {When(Absent(operators[k], "name"), <<"Operator: missing name", k>>)
                    \cup When(Absent(operators[k], "hubspot_owner_id"),
                              <<"Operator: missing hubspot_owner_id", k>>)
                    \cup When(/\ ~Absent(operators[k], "hubspot_owner_id")
                              /\ ~DecimalDigits(operators[k]["hubspot_owner_id"]),
                              <<"Operator: hubspot_owner_id must be numeric, got", k>>) :
                    k \in 1..Len(operators)}
        \cup When(Len(personas) = 0, <<"At least one persona is required", 0>>)
        \cup UNION {When(Absent(personas[k], "title_keywords"),
                         <<"Persona: missing title_keywords", k>>)
                    \cup When(Absent(personas[k], "location"), <<"Persona: missing location", k>>) :
                    k \in 1..Len(personas)}

\* C7: validate_config reports every violated rule in one pass, each per-item
\* message naming the 1-based position of its operator or persona, and returns an
\* empty list if and only if no rule is violated.
C7_EveryViolationReported ==
    vpc = "validated" =>
        /\ \A v \in Violations(vinput) : HasMessage(v[1], v[2])
        /\ Len(verrors) = 0 <=> Violations(vinput) = {}

\* C8: validate_prefix returns an empty list exactly for the strings made of 2, 3
\* or 4 uppercase ASCII letters and nothing else, and one message quoting the
\* string for every other string.
C8_PrefixAcceptedIffTwoToFourUpper ==
    vpc = "validated" =>
        /\ Len(verrors) = 0 <=> TwoToFourUpper(vinput)
        /\ Len(verrors) > 0 =>
              verrors = <<Msg("Prefix must be 2-4 uppercase letters, got", 0, vinput)>>

\* C8 witness: the four-letter prefix AQZA has been accepted.
C8_Witness ==
    /\ vpc = "validated"
    /\ vinput = <<"A", "Q", "Z", "A">>
    /\ Len(verrors) = 0

\* C9: for every operator, validate_config reports no hubspot_owner_id error if
\* and only if the id is present, non-empty and made of the decimal digits 0-9.
C9_OwnerIdErrorIffNotDecimal ==
    vpc = "validated" =>
        \A k \in 1..Len(vinput["operators"]) :
            LET op == vinput["operators"][k] IN
            (~ \/ HasMessage("Operator: missing hubspot_owner_id", k)
               \/ HasMessage("Operator: hubspot_owner_id must be numeric, got", k))
            <=> (~Absent(op, "hubspot_owner_id") /\ DecimalDigits(op["hubspot_owner_id"]))

\* C13: whatever is answered at the prompts, the config run_interactive
\* assembles from prompt_basic_info, prompt_operators and prompt_personas passes
\* validate_config with an empty error list: the branch that prints validation
\* errors and exits with status 1 is never reached, and once collection has
\* ended the next step writes the assembled config to the config file.
C13_CollectedConfigIsValid ==
    /\ ipc # "validation_failed"
    /\ ipc = "collected" => validate_config(AssembledConfig) = <<>>
    /\ ipc = "written" => ierrors = <<>> /\ ifile = AssembledConfig /\ iexit = 0

\* C13 witness: after re-prompts the config with prefix "SS", an operator whose
\* owner id is "1" SUPERSCRIPT TWO and a persona with the default language has
\* been written.
C13_Witness ==
    /\ ipc = "written"
    /\ ifile = AssembledConfig
    /\ iprefix = <<"S", "S">>
    /\ Len(ioperators) = 2
    /\ ioperators[2].hubspot_owner_id = <<"1", "U+00B2">>
    /\ Len(ipersonas) = 1
    /\ ipersonas[1].language = <<"e", "n">>

-----------------------------------------------------------------------------
(* setup_n8n_tables.py : properties *)

LeapYear(y) == y % 4 = 0 /\ (y % 100 # 0 \/ y % 400 = 0)

MonthLength(y, m) ==
    IF m = 2 THEN (IF LeapYear(y) THEN 29 ELSE 28)
    ELSE IF m \in {4, 6, 9, 11} THEN 30 ELSE 31

RECURSIVE DaysBeforeMonth(_, _)
DaysBeforeMonth(y, m) == IF m = 1 THEN 0 ELSE MonthLength(y, m - 1) + DaysBeforeMonth(y, m - 1)

DigitValue(c) == CHOOSE d \in 0..9 : DigitChar(d) = c

\* a well-formed YYYY-MM-DD string naming a day of the calendar
IsIsoDate(str) ==
    /\ Len(str) = 10
    /\ str[5] = "-" /\ str[8] = "-"
    /\ \A k \in {1, 2, 3, 4, 6, 7, 9, 10} : str[k] \in AsciiDigits
    /\ LET y == 1000 * DigitValue(str[1]) + 100 * DigitValue(str[2])
                + 10 * DigitValue(str[3]) + DigitValue(str[4])
           m == 10 * DigitValue(str[6]) + DigitValue(str[7])
           d == 10 * DigitValue(str[9]) + DigitValue(str[10])
       IN  y >= 1 /\ m \in 1..12 /\ d \in 1..MonthLength(y, m)

\* the ordinal of the day a YYYY-MM-DD string names (0001-01-01, a Monday, is 1)
OrdinalOfIso(str) ==
    LET y == 1000 * DigitValue(str[1]) + 100 * DigitValue(str[2])
             + 10 * DigitValue(str[3]) + DigitValue(str[4])
        m == 10 * DigitValue(str[6]) + DigitValue(str[7])
        d == 10 * DigitValue(str[9]) + DigitValue(str[10])
    IN  (y - 1) * 365 + ((y - 1) \div 4) - ((y - 1) \div 100) + ((y - 1) \div 400)
        + DaysBeforeMonth(y, m) + d

IsMonday(ord) == ord % 7 = 1

\* C10: every user-counters row carries as weekly_reset_date the first Monday
\* strictly after today (1 to 7 days ahead, 7 when today is a Monday) and as
\* daily_reset_date the day after today, so all rows carry the same two dates.
C10_ResetDates ==
    tpc = "built" =>
        /\ Len(table.rows) = Len(toperators)
        /\ \A k \in 1..Len(table.rows) :
              LET row == table.rows[k] IN
              /\ IsIsoDate(row.weekly_reset_date)
              /\ IsIsoDate(row.daily_reset_date)
              /\ LET w == OrdinalOfIso(row.weekly_reset_date)
                     d == OrdinalOfIso(row.daily_reset_date)
                 IN  /\ IsMonday(w)
                     /\ w - today \in 1..7
                     /\ \A x \in (today + 1)..(w - 1) : ~IsMonday(x)
                     /\ IsMonday(today) => w = today + 7
                     /\ d = today + 1
              /\ row.weekly_reset_date = table.rows[1].weekly_reset_date
              /\ row.daily_reset_date = table.rows[1].daily_reset_date

\* C10 witness: built on Monday 2024-01-08 for two operators, the table carries
\* 2024-01-15 and 2024-01-09.
C10_Witness ==
    /\ tpc = "built"
    /\ today = 738893
    /\ Len(table.rows) = 2
    /\ table.rows[2].weekly_reset_date = <<"2", "0", "2", "4", "-", "0", "1", "-", "1", "5">>
    /\ table.rows[2].daily_reset_date = <<"2", "0", "2", "4", "-", "0", "1", "-", "0", "9">>

\* the credential a column of a service's row is filled from ("": from none)
CredentialOf(service, column) ==
    IF service = "hubspot" /\ column = "api_key" THEN "HUBSPOT_TOKEN"
    ELSE IF service = "unipile" /\ column = "api_key" THEN "UNIPILE_API_KEY"
    ELSE IF service = "unipile" /\ column = "account_id" THEN "UNIPILE_ACCOUNT_ID"
    ELSE IF service = "unipile" /\ column = "dns" THEN "UNIPILE_DNS"
    ELSE IF service = "cargo" /\ column = "api_key" THEN "CARGO_API_KEY"
    ELSE ""

\* C11: for every prefix and credential set, credentials_table returns the table
\* {prefix}-wos-credentials with exactly 3 rows, hubspot, unipile and cargo in that
\* order; each row fills only the columns relevant to its service from the
\* credential set, and an absent credential appears as the empty string.
C11_CredentialsTable ==
    tpc = "credentials" =>
        /\ table.name = <<tprefix, "-wos-credentials">>
        /\ Len(table.rows) = 3
        /\ <<table.rows[1].service, table.rows[2].service, table.rows[3].service>>
              = <<"hubspot", "unipile", "cargo">>
        /\ \A k \in 1..3 :
              /\ DOMAIN table.rows[k] = Range(table.columns)
              /\ \A column \in Range(table.columns) \ {"service"} :
                    LET key == CredentialOf(table.rows[k].service, column) IN
                    table.rows[k][column] =
                        (IF key \in DOMAIN tenv THEN tenv[key] ELSE <<>>)

\* C11 witness: from a credential set holding only UNIPILE_DNS and CARGO_API_KEY
\* the table has its three rows, the hubspot api_key empty.
C11_Witness ==
    /\ tpc = "credentials"
    /\ DOMAIN tenv = {"UNIPILE_DNS", "CARGO_API_KEY"}
    /\ tenv["UNIPILE_DNS"] = <<"a">>
    /\ tenv["CARGO_API_KEY"] = <<"b">>
    /\ Len(table.rows) = 3
    /\ table.rows[1].api_key = <<>>
    /\ table.rows[2].dns = <<"a">>
    /\ table.rows[3].api_key = <<"b">>

-----------------------------------------------------------------------------
(* Specifications: the scripts share no state, each is checked on its own *)

RIdle ==
    /\ remote = [t \in ObjectTypes |-> [n \in RequiredNames(t) |-> 1]]
    /\ run = 0 /\ pc = "idle" /\ do_create = FALSE /\ ot = 1 /\ i = 1
    /\ existing = {} /\ all_ok = TRUE
    /\ fetched = FreshFetched /\ fstate = FreshFstate /\ creates = FreshCreates
    /\ result = "none" /\ exit_code = -1 /\ start_remote = remote /\ prev = NoRun

\* verify_hubspot_properties.py
Init == RInit /\ VIdle /\ TIdle /\ IIdle

Next ==
    \/ \E flag \in BOOLEAN : Main(flag)
    \/ FetchOk
    \/ FetchHTTPError
    \/ FetchTimeout
    \/ CheckPresent
    \/ ReportMissing
    \/ \E status \in Statuses : CreateProperty(status)
    \/ CreateTimeout

Spec == Init /\ [][Next]_vars

\* generate_client_config.py: validate_config on configs
InitValidate == RIdle /\ VInitWith(Configs) /\ TIdle /\ IIdle

NextValidate == ValidateConfig

SpecValidate == InitValidate /\ [][NextValidate]_vars

\* generate_client_config.py: validate_config on operators' owner ids
InitOwner == RIdle /\ VInitWith(OwnerConfigs) /\ TIdle /\ IIdle

SpecOwner == InitOwner /\ [][NextValidate]_vars

\* generate_client_config.py: validate_prefix on strings
InitPrefix == RIdle /\ VInitWith(PrefixStrings) /\ TIdle /\ IIdle

NextPrefix == ValidatePrefix

SpecPrefix == InitPrefix /\ [][NextPrefix]_vars

\* setup_n8n_tables.py
InitTables == RIdle /\ VIdle /\ TInit /\ IIdle

NextTables == UserCountersTable

SpecTables == InitTables /\ [][NextTables]_vars

\* setup_n8n_tables.py: credentials_table on credential sets
InitCredentials == RIdle /\ VIdle /\ TInitCredentials /\ IIdle

NextCredentials == CredentialsTable

SpecCredentials == InitCredentials /\ [][NextCredentials]_vars

\* generate_client_config.py: run_interactive on answers typed at the prompts
InitInteractive == RIdle /\ VIdle /\ TIdle /\ IInit

NextInteractive ==
    \/ \E answer \in FreeAnswers : PromptCompanyName(answer)
    \/ \E answer \in PrefixAnswers : PromptPrefix(answer)
    \/ \E answer \in Answers : PromptOperatorName(answer)
    \/ \E answer \in Answers : PromptOwnerId(answer)
    \/ \E answer \in Answers : PromptTitleKeywords(answer)
    \/ \E answer \in FreeAnswers : PromptLanguage(answer)
    \/ \E answer \in FreeAnswers : PromptNetworkDistance(answer)
    \/ \E answer \in FreeAnswers : PromptLocation(answer)
    \/ EndOfInput
    \/ ValidateAndWrite

SpecInteractive == InitInteractive /\ [][NextInteractive]_vars

====
